---- MODULE Spec2Model ----
(***************************************************************************)
(* Model of the Ortelius scorecard microservice (src/main.go).             *)
(*                                                                         *)
(* Go strings are modelled as sequences of one-character strings, so that  *)
(* strings.ReplaceAll, strings.Contains and string concatenation are       *)
(* computed character by character as the Go runtime computes them.        *)
(* Check names, which the code only compares for equality, are TLA+        *)
(* strings.  Scores are integers: check scores are Go ints, the aggregate  *)
(* score is modelled in tenths (75 is 7.5).                                *)
(***************************************************************************)
EXTENDS Integers, Sequences, FiniteSets, TLC

VARIABLES
    pc,          \* position of the handler: idle, first, retry, cli, done
    token,       \* environment variable GITHUB_TOKEN
    repoURL,     \* c.Params("*")
    commitSha,   \* c.Query("commit")
    githubURL,   \* local githubURL of getScorecard
    fullURL,     \* local fullURL of getScorecard
    calls,       \* log of the outgoing calls (HTTP GETs, subprocess runs)
    response,    \* the Scorecard handed to c.JSON
    rawBody,     \* bytes given to the two decode-and-map copies
    cliScorecard,\* result of the decode-and-map part of fetchScoreCardWithCLI
    cur,         \* string under permuted replacement
    todo,        \* replacements not yet applied to cur
    inOrder      \* FALSE once "git+" was applied before "git+ssh://git@"

vars == <<pc, token, repoURL, commitSha, githubURL, fullURL, calls, response,
          rawBody, cliScorecard, cur, todo, inOrder>>

----------------------------------------------------------------------------
(* String literals of the source, as character sequences *)

scorecardAPIBaseURL ==
    <<"h", "t", "t", "p", "s", ":", "/", "/", "a", "p", "i", ".", "s", "e",
      "c", "u", "r", "i", "t", "y", "s", "c", "o", "r", "e", "c", "a", "r",
      "d", "s", ".", "d", "e", "v", "/", "p", "r", "o", "j", "e", "c", "t",
      "s", "/">>

StrGitSsh == <<"g", "i", "t", "+", "s", "s", "h", ":", "/", "/", "g", "i", "t", "@">>
StrGitHttps == <<"g", "i", "t", "+", "h", "t", "t", "p", "s", ":", "/", "/">>
StrHttp == <<"h", "t", "t", "p", ":", "/", "/">>
StrHttps == <<"h", "t", "t", "p", "s", ":", "/", "/">>
StrGitColon == <<"g", "i", "t", ":">>
StrGitPlus == <<"g", "i", "t", "+">>
StrDotGit == <<".", "g", "i", "t">>
StrCommitQuery == <<"?", "c", "o", "m", "m", "i", "t", "=">>
StrGithubCom == <<"g", "i", "t", "h", "u", "b", ".", "c", "o", "m">>
StrScorecard == <<"s", "c", "o", "r", "e", "c", "a", "r", "d">>
StrRepoFlag == <<"-", "-", "r", "e", "p", "o", "=">>
StrCommitFlag == <<"-", "-", "c", "o", "m", "m", "i", "t", "=">>
StrFormatFlag == <<"-", "-", "f", "o", "r", "m", "a", "t">>
StrJson == <<"j", "s", "o", "n">>

----------------------------------------------------------------------------
(* strings package *)

\* strings.Contains(s, sub)
Contains(s, sub) ==
    \E i \in 1..(Len(s) - Len(sub) + 1) : SubSeq(s, i, i + Len(sub) - 1) = sub

\* strings.ReplaceAll(s, old, new) for a non-empty old: the leftmost
\* non-overlapping occurrences, found in one left-to-right scan
RECURSIVE ReplaceAll(_, _, _)
ReplaceAll(s, old, new) ==
    IF Len(s) < Len(old) THEN s
    ELSE IF SubSeq(s, 1, Len(old)) = old
         THEN new \o ReplaceAll(SubSeq(s, Len(old) + 1, Len(s)), old, new)
         ELSE <<Head(s)>> \o ReplaceAll(Tail(s), old, new)

----------------------------------------------------------------------------
(* cleanRepoURL *)

replacements_DotGitFirst ==
    << [old |-> StrDotGit, new |-> <<>>],
       [old |-> StrGitPlus, new |-> <<>>],
       [old |-> StrGitColon, new |-> <<>>],
       [old |-> StrHttps, new |-> <<>>],
       [old |-> StrHttp, new |-> <<>>],
       [old |-> StrGitHttps, new |-> <<>>],
       [old |-> StrGitSsh, new |-> <<>>] >>

replacements_NoDotGit ==
    << [old |-> StrGitSsh, new |-> <<>>],
       [old |-> StrGitHttps, new |-> <<>>],
       [old |-> StrHttp, new |-> <<>>],
       [old |-> StrHttps, new |-> <<>>],
       [old |-> StrGitColon, new |-> <<>>],
       [old |-> StrGitPlus, new |-> <<>>] >>

\* the replacements table of cleanRepoURL, in source order
replacements ==
    << [old |-> StrGitSsh, new |-> <<>>],
       [old |-> StrGitHttps, new |-> <<>>],
       [old |-> StrHttp, new |-> <<>>],
       [old |-> StrHttps, new |-> <<>>],
       [old |-> StrGitColon, new |-> <<>>],
       [old |-> StrGitPlus, new |-> <<>>],
       [old |-> StrDotGit, new |-> <<>>] >>

\* the loop of cleanRepoURL over the first n entries of the table
RECURSIVE cleanLoop(_, _, _)
cleanLoop(s, table, n) ==
    IF n = 0 THEN s
    ELSE ReplaceAll(cleanLoop(s, table, n - 1), table[n].old, table[n].new)

cleanRepoURL_NoDotGit(url) ==
    cleanLoop(url, replacements_NoDotGit, Len(replacements_NoDotGit))

cleanRepoURL_ReversedTable(url) ==
    cleanLoop(url, replacements_DotGitFirst, Len(replacements_DotGitFirst))

cleanRepoURL(url) == cleanLoop(url, replacements, Len(replacements))

----------------------------------------------------------------------------
(* model.Scorecard and the upstream schema ossf.JSONScorecardResultV2 *)

\* var scorecard model.Scorecard: the zero value
EmptyScorecard ==
    [ CommitSha |-> <<>>, Pinned |-> FALSE, Score |-> 0,
      Maintained |-> 0,
      CodeReview |-> 0,
      CIIBestPractices |-> 0,
      License |-> 0,
      SignedReleases |-> 0,
      DangerousWorkflow |-> 0,
      Packaging |-> 0,
      TokenPermissions |-> 0,
      BranchProtection |-> 0,
      BinaryArtifacts |-> 0,
      PinnedDependencies |-> 0,
      SecurityPolicy |-> 0,
      Fuzzing |-> 0,
      SAST |-> 0,
      Vulnerabilities |-> 0,
      CITests |-> 0,
      Contributors |-> 0,
      DependencyUpdateTool |-> 0,
      SBOM |-> 0,
      Webhooks |-> 0 ]

\* the zero value of ossf.JSONScorecardResultV2, reduced to the fields read
ZeroResult == [Commit |-> <<>>, AggregateScore |-> 0, Checks |-> <<>>]

\* float32(x): exact for every value of the model (integers below 2^24)
float32(x) == x

----------------------------------------------------------------------------
(* parseScoreCard *)

setCheck_SwapsSASTAndSBOM(sc, name, score) ==
    CASE name = "Maintained" -> [sc EXCEPT !.Maintained = score]
      [] name = "Code-Review" -> [sc EXCEPT !.CodeReview = score]
      [] name = "CII-Best-Practices" -> [sc EXCEPT !.CIIBestPractices = score]
      [] name = "License" -> [sc EXCEPT !.License = score]
      [] name = "Signed-Releases" -> [sc EXCEPT !.SignedReleases = score]
      [] name = "Dangerous-Workflow" -> [sc EXCEPT !.DangerousWorkflow = score]
      [] name = "Packaging" -> [sc EXCEPT !.Packaging = score]
      [] name = "Token-Permissions" -> [sc EXCEPT !.TokenPermissions = score]
      [] name = "Branch-Protection" -> [sc EXCEPT !.BranchProtection = score]
      [] name = "Binary-Artifacts" -> [sc EXCEPT !.BinaryArtifacts = score]
      [] name = "Pinned-Dependencies" -> [sc EXCEPT !.PinnedDependencies = score]
      [] name = "Security-Policy" -> [sc EXCEPT !.SecurityPolicy = score]
      [] name = "Fuzzing" -> [sc EXCEPT !.Fuzzing = score]
      [] name = "SAST" -> [sc EXCEPT !.SBOM = score]
      [] name = "Vulnerabilities" -> [sc EXCEPT !.Vulnerabilities = score]
      [] name = "CI-Tests" -> [sc EXCEPT !.CITests = score]
      [] name = "Contributors" -> [sc EXCEPT !.Contributors = score]
      [] name = "Dependency-Update-Tool" -> [sc EXCEPT !.DependencyUpdateTool = score]
      [] name = "SBOM" -> [sc EXCEPT !.SBOM = score]
      [] name = "Webhooks" -> [sc EXCEPT !.Webhooks = score]
      [] OTHER -> sc

\* the switch of parseScoreCard: one check entry assigned to its field
setCheck(sc, name, score) ==
    CASE name = "Maintained" -> [sc EXCEPT !.Maintained = score]
      [] name = "Code-Review" -> [sc EXCEPT !.CodeReview = score]
      [] name = "CII-Best-Practices" -> [sc EXCEPT !.CIIBestPractices = score]
      [] name = "License" -> [sc EXCEPT !.License = score]
      [] name = "Signed-Releases" -> [sc EXCEPT !.SignedReleases = score]
      [] name = "Dangerous-Workflow" -> [sc EXCEPT !.DangerousWorkflow = score]
      [] name = "Packaging" -> [sc EXCEPT !.Packaging = score]
      [] name = "Token-Permissions" -> [sc EXCEPT !.TokenPermissions = score]
      [] name = "Branch-Protection" -> [sc EXCEPT !.BranchProtection = score]
      [] name = "Binary-Artifacts" -> [sc EXCEPT !.BinaryArtifacts = score]
      [] name = "Pinned-Dependencies" -> [sc EXCEPT !.PinnedDependencies = score]
      [] name = "Security-Policy" -> [sc EXCEPT !.SecurityPolicy = score]
      [] name = "Fuzzing" -> [sc EXCEPT !.Fuzzing = score]
      [] name = "SAST" -> [sc EXCEPT !.SAST = score]
      [] name = "Vulnerabilities" -> [sc EXCEPT !.Vulnerabilities = score]
      [] name = "CI-Tests" -> [sc EXCEPT !.CITests = score]
      [] name = "Contributors" -> [sc EXCEPT !.Contributors = score]
      [] name = "Dependency-Update-Tool" -> [sc EXCEPT !.DependencyUpdateTool = score]
      [] name = "SBOM" -> [sc EXCEPT !.SBOM = score]
      [] name = "Webhooks" -> [sc EXCEPT !.Webhooks = score]
      [] OTHER -> sc

\* the loop of parseScoreCard over the first n check entries
RECURSIVE checksLoop(_, _, _)
checksLoop(sc, checks, n) ==
    IF n = 0 THEN sc
    ELSE setCheck(checksLoop(sc, checks, n - 1),
                  checks[n].Name, float32(checks[n].Score))

parseScoreCard_IgnoresDecodeError(body, sha) ==
    LET result == body.result
        pinned == IF result.Commit = sha
                  THEN [EmptyScorecard EXCEPT !.Pinned = TRUE, !.CommitSha = sha]
                  ELSE EmptyScorecard
        scored == [pinned EXCEPT !.Score = float32(result.AggregateScore)]
    IN  checksLoop(scored, result.Checks, Len(result.Checks))

\* body is resp.Body(): ok says whether json.Unmarshal succeeds, result is
\* what it leaves in the result variable
parseScoreCard(body, sha) ==
    IF ~body.ok THEN EmptyScorecard
    ELSE LET result == body.result
             pinned == IF result.Commit = sha
                       THEN [EmptyScorecard EXCEPT !.Pinned = TRUE, !.CommitSha = sha]
                       ELSE EmptyScorecard
             scored == [pinned EXCEPT !.Score = float32(result.AggregateScore)]
         IN  checksLoop(scored, result.Checks, Len(result.Checks))

----------------------------------------------------------------------------
(* fetchScoreCardWithCLI *)

cliSetCheck_DropsWebhooks(sc, name, score) ==
    CASE name = "Maintained" -> [sc EXCEPT !.Maintained = score]
      [] name = "Code-Review" -> [sc EXCEPT !.CodeReview = score]
      [] name = "CII-Best-Practices" -> [sc EXCEPT !.CIIBestPractices = score]
      [] name = "License" -> [sc EXCEPT !.License = score]
      [] name = "Signed-Releases" -> [sc EXCEPT !.SignedReleases = score]
      [] name = "Dangerous-Workflow" -> [sc EXCEPT !.DangerousWorkflow = score]
      [] name = "Packaging" -> [sc EXCEPT !.Packaging = score]
      [] name = "Token-Permissions" -> [sc EXCEPT !.TokenPermissions = score]
      [] name = "Branch-Protection" -> [sc EXCEPT !.BranchProtection = score]
      [] name = "Binary-Artifacts" -> [sc EXCEPT !.BinaryArtifacts = score]
      [] name = "Pinned-Dependencies" -> [sc EXCEPT !.PinnedDependencies = score]
      [] name = "Security-Policy" -> [sc EXCEPT !.SecurityPolicy = score]
      [] name = "Fuzzing" -> [sc EXCEPT !.Fuzzing = score]
      [] name = "SAST" -> [sc EXCEPT !.SAST = score]
      [] name = "Vulnerabilities" -> [sc EXCEPT !.Vulnerabilities = score]
      [] name = "CI-Tests" -> [sc EXCEPT !.CITests = score]
      [] name = "Contributors" -> [sc EXCEPT !.Contributors = score]
      [] name = "Dependency-Update-Tool" -> [sc EXCEPT !.DependencyUpdateTool = score]
      [] name = "SBOM" -> [sc EXCEPT !.SBOM = score]
      [] OTHER -> sc

\* the switch of fetchScoreCardWithCLI
cliSetCheck(sc, name, score) ==
    CASE name = "Maintained" -> [sc EXCEPT !.Maintained = score]
      [] name = "Code-Review" -> [sc EXCEPT !.CodeReview = score]
      [] name = "CII-Best-Practices" -> [sc EXCEPT !.CIIBestPractices = score]
      [] name = "License" -> [sc EXCEPT !.License = score]
      [] name = "Signed-Releases" -> [sc EXCEPT !.SignedReleases = score]
      [] name = "Dangerous-Workflow" -> [sc EXCEPT !.DangerousWorkflow = score]
      [] name = "Packaging" -> [sc EXCEPT !.Packaging = score]
      [] name = "Token-Permissions" -> [sc EXCEPT !.TokenPermissions = score]
      [] name = "Branch-Protection" -> [sc EXCEPT !.BranchProtection = score]
      [] name = "Binary-Artifacts" -> [sc EXCEPT !.BinaryArtifacts = score]
      [] name = "Pinned-Dependencies" -> [sc EXCEPT !.PinnedDependencies = score]
      [] name = "Security-Policy" -> [sc EXCEPT !.SecurityPolicy = score]
      [] name = "Fuzzing" -> [sc EXCEPT !.Fuzzing = score]
      [] name = "SAST" -> [sc EXCEPT !.SAST = score]
      [] name = "Vulnerabilities" -> [sc EXCEPT !.Vulnerabilities = score]
      [] name = "CI-Tests" -> [sc EXCEPT !.CITests = score]
      [] name = "Contributors" -> [sc EXCEPT !.Contributors = score]
      [] name = "Dependency-Update-Tool" -> [sc EXCEPT !.DependencyUpdateTool = score]
      [] name = "SBOM" -> [sc EXCEPT !.SBOM = score]
      [] name = "Webhooks" -> [sc EXCEPT !.Webhooks = score]
      [] OTHER -> sc

\* the loop of fetchScoreCardWithCLI over the first n check entries
RECURSIVE cliChecksLoop(_, _, _)
cliChecksLoop(sc, checks, n) ==
    IF n = 0 THEN sc
    ELSE cliSetCheck(cliChecksLoop(sc, checks, n - 1),
                     checks[n].Name, float32(checks[n].Score))

\* the decode-and-map part of fetchScoreCardWithCLI; out is out.String()
cliDecodeAndMap(out, sha) ==
    IF ~out.ok THEN EmptyScorecard
    ELSE LET result == out.result
             pinned == IF result.Commit = sha
                       THEN [EmptyScorecard EXCEPT !.Pinned = TRUE, !.CommitSha = sha]
                       ELSE EmptyScorecard
             scored == [pinned EXCEPT !.Score = float32(result.AggregateScore)]
         IN  cliChecksLoop(scored, result.Checks, Len(result.Checks))

\* the argument vector of exec.Command
cliArgs(url, sha) ==
    <<StrScorecard, StrRepoFlag \o url, StrCommitFlag \o sha, StrFormatFlag, StrJson>>

\* run is the outcome of cmd.Run(): err is "launch", "exit" or "none",
\* out is the captured standard output
fetchScoreCardWithCLI(run, sha) ==
    IF run.err # "none" THEN EmptyScorecard
    ELSE cliDecodeAndMap(run.out, sha)

----------------------------------------------------------------------------
(* The environment of one resolution *)

StrAbc == <<"a", "b", "c">>
StrAbcUpper == <<"A", "B", "C">>
StrXyz == <<"x", "y", "z">>
StrTok == <<"t", "o", "k">>
StrFooBar == <<"/", "f", "o", "o", "/", "b", "a", "r">>
StrGitlabCom == <<"g", "i", "t", "l", "a", "b", ".", "c", "o", "m">>
StrWwwGithubCom == <<"w", "w", "w", ".", "g", "i", "t", "h", "u", "b", ".", "c", "o", "m">>
StrGithubGitCom == <<"g", "i", "t", "h", "u", "b", ".", "g", "i", "t", ".", "c", "o", "m">>

\* the transport prefixes the spec lists, and no prefix
Prefixes == {<<>>, StrGitSsh, StrGitHttps, StrHttp, StrHttps, StrGitColon, StrGitPlus}
Suffixes == {<<>>, StrDotGit}

\* the locators a caller sends: empty, and prefix + host + /foo/bar + suffix
Hosts == {StrGithubCom, StrGitlabCom, StrWwwGithubCom, StrGithubGitCom}
RepoURLs ==
    {<<>>} \cup {p \o h \o StrFooBar \o s : p \in Prefixes, h \in Hosts, s \in Suffixes}

\* the commit query parameter: absent or present
Commits == {<<>>, StrAbc}

\* values of GITHUB_TOKEN
Tokens == {<<>>, StrTok}

\* decoded upstream results: the commit is absent, the requested one, the
\* requested one in another case, or another one
Results ==
    [ Commit : {<<>>, StrAbc, StrAbcUpper, StrXyz},
      AggregateScore : {75},
      Checks : { << [Name |-> "Maintained", Score |-> 8],
                    [Name |-> "Not-A-Check", Score |-> 5] >> } ]

\* bodies: decodable ones, and ones on which json.Unmarshal fails after it
\* has filled part of the result
Bodies ==
    {[ok |-> TRUE, result |-> r] : r \in Results}
    \cup {[ok |-> FALSE, result |-> ZeroResult]}
    \cup {[ok |-> FALSE, result |-> r] : r \in {x \in Results : x.Commit = StrAbc}}

NoBody == [ok |-> FALSE, result |-> ZeroResult]

\* what client.R().Get returns: a transport error, or a response
HTTPOutcomes ==
    {[err |-> TRUE, status |-> 0, body |-> NoBody]}
    \cup {[err |-> FALSE, status |-> 200, body |-> b] : b \in Bodies}
    \cup {[err |-> FALSE, status |-> s, body |-> NoBody] : s \in {404, 500}}

\* what cmd.Run() returns: a launch failure, a non-zero exit, or success
\* with the captured standard output
CLIOutcomes ==
    {[err |-> e, out |-> NoBody] : e \in {"launch", "exit"}}
    \cup {[err |-> "none", out |-> b] : b \in Bodies}

NoResponse == [none |-> TRUE]

httpCall(url) ==
    [kind |-> "http", url |-> url, args |-> <<>>, outcome |-> "pending",
     status |-> 0, body |-> NoBody]

cliCall(args) ==
    [kind |-> "cli", url |-> <<>>, args |-> args, outcome |-> "pending",
     status |-> 0, body |-> NoBody]

\* the last call of the log completed with outcome o
completed(log, o, status, body) ==
    [log EXCEPT ![Len(log)] =
        [@ EXCEPT !.outcome = o, !.status = status, !.body = body]]

httpOutcomeName(o) ==
    IF o.err THEN "error" ELSE IF o.status = 200 THEN "ok" ELSE "non200"

----------------------------------------------------------------------------
(* getScorecard *)

StatusOK == 200

\* fullURL of the first lookup
firstURL(url, sha) ==
    IF sha # <<>> THEN (scorecardAPIBaseURL \o url) \o (StrCommitQuery \o sha)
    ELSE scorecardAPIBaseURL \o url

\* fullURL of the retry
retryURL(url) == scorecardAPIBaseURL \o url

retryGuard_Always(sha) == TRUE

\* the condition of the retry without commitSha
retryGuard(sha) == sha # <<>>

cliGuard_NoCommitTest(tok, url, sha) ==
    tok # <<>> /\ Contains(url, StrGithubCom)

\* the condition of the fallback to the CLI
cliGuard(tok, url, sha) ==
    tok # <<>> /\ Contains(url, StrGithubCom) /\ sha # <<>>

\* the end of getScorecard, reached when no lookup returned 200: start the
\* subprocess, or return the zero Scorecard
fallback(log) ==
    IF cliGuard(token, githubURL, commitSha)
    THEN /\ pc' = "cli"
         /\ calls' = Append(log, cliCall(cliArgs(githubURL, commitSha)))
         /\ response' = response
    ELSE /\ pc' = "done"
         /\ calls' = log
         /\ response' = EmptyScorecard

Request_NoEmptyTest(r, c) ==
    /\ pc = "idle"
    /\ repoURL' = r
    /\ commitSha' = c
    /\ LET url == cleanRepoURL(r)
       IN  /\ pc' = "first"
           /\ githubURL' = url
           /\ fullURL' = firstURL(url, c)
           /\ calls' = <<httpCall(firstURL(url, c))>>
           /\ response' = NoResponse
    /\ UNCHANGED <<token, rawBody, cliScorecard, cur, todo, inOrder>>

\* a request arrives: getScorecard up to the first client.R().Get
Request(r, c) ==
    /\ pc = "idle"
    /\ repoURL' = r
    /\ commitSha' = c
    /\ IF r = <<>>
       THEN /\ pc' = "done"
            /\ githubURL' = <<>>
            /\ fullURL' = <<>>
            /\ calls' = <<>>
            /\ response' = EmptyScorecard
       ELSE LET url == cleanRepoURL(r)
            IN  /\ pc' = "first"
                /\ githubURL' = url
                /\ fullURL' = firstURL(url, c)
                /\ calls' = <<httpCall(firstURL(url, c))>>
                /\ response' = NoResponse
    /\ UNCHANGED <<token, rawBody, cliScorecard, cur, todo, inOrder>>

FirstResponse_ErrorFallsThrough(o) ==
    /\ pc = "first"
    /\ LET log == completed(calls, httpOutcomeName(o), o.status, o.body)
       IN  IF ~o.err /\ o.status = StatusOK
           THEN /\ pc' = "done"
                /\ calls' = log
                /\ response' = parseScoreCard(o.body, commitSha)
                /\ UNCHANGED fullURL
           ELSE IF retryGuard(commitSha)
           THEN /\ pc' = "retry"
                /\ fullURL' = retryURL(githubURL)
                /\ calls' = Append(log, httpCall(retryURL(githubURL)))
                /\ UNCHANGED response
           ELSE /\ fallback(log)
                /\ UNCHANGED fullURL
    /\ UNCHANGED <<token, repoURL, commitSha, githubURL, rawBody, cliScorecard,
                   cur, todo, inOrder>>

\* the first client.R().Get returns: getScorecard from the error test to the
\* next call or return
FirstResponse(o) ==
    /\ pc = "first"
    /\ LET log == completed(calls, httpOutcomeName(o), o.status, o.body)
       IN  IF o.err
           THEN /\ pc' = "done"
                /\ calls' = log
                /\ response' = EmptyScorecard
                /\ UNCHANGED fullURL
           ELSE IF o.status = StatusOK
           THEN /\ pc' = "done"
                /\ calls' = log
                /\ response' = parseScoreCard(o.body, commitSha)
                /\ UNCHANGED fullURL
           ELSE IF retryGuard(commitSha)
           THEN /\ pc' = "retry"
                /\ fullURL' = retryURL(githubURL)
                /\ calls' = Append(log, httpCall(retryURL(githubURL)))
                /\ UNCHANGED response
           ELSE /\ fallback(log)
                /\ UNCHANGED fullURL
    /\ UNCHANGED <<token, repoURL, commitSha, githubURL, rawBody, cliScorecard,
                   cur, todo, inOrder>>

\* the retry returns: getScorecard from its error test to the subprocess
\* or return
RetryResponse(o) ==
    /\ pc = "retry"
    /\ LET log == completed(calls, httpOutcomeName(o), o.status, o.body)
       IN  IF o.err
           THEN /\ pc' = "done"
                /\ calls' = log
                /\ response' = EmptyScorecard
           ELSE IF o.status = StatusOK
           THEN /\ pc' = "done"
                /\ calls' = log
                /\ response' = parseScoreCard(o.body, commitSha)
           ELSE fallback(log)
    /\ UNCHANGED <<token, repoURL, commitSha, githubURL, fullURL, rawBody,
                   cliScorecard, cur, todo, inOrder>>

\* cmd.Run() returns: the rest of fetchScoreCardWithCLI, and c.JSON
CLIExit(run) ==
    /\ pc = "cli"
    /\ pc' = "done"
    /\ calls' = completed(calls, IF run.err = "none" THEN "ok" ELSE run.err,
                          0, run.out)
    /\ response' = fetchScoreCardWithCLI(run, commitSha)
    /\ UNCHANGED <<token, repoURL, commitSha, githubURL, fullURL, rawBody,
                   cliScorecard, cur, todo, inOrder>>

\* the handler has returned: its locals are gone, and the route waits for
\* the next request
Return ==
    /\ pc = "done"
    /\ pc' = "idle"
    /\ repoURL' = <<>>
    /\ commitSha' = <<>>
    /\ githubURL' = <<>>
    /\ fullURL' = <<>>
    /\ calls' = <<>>
    /\ response' = NoResponse
    /\ UNCHANGED <<token, rawBody, cliScorecard, cur, todo, inOrder>>

\* the service after start-up: no request in progress
Init ==
    /\ pc = "idle"
    /\ token \in Tokens
    /\ repoURL = <<>>
    /\ commitSha = <<>>
    /\ githubURL = <<>>
    /\ fullURL = <<>>
    /\ calls = <<>>
    /\ response = NoResponse
    /\ rawBody = NoBody
    /\ cliScorecard = NoResponse
    /\ cur = <<>>
    /\ todo = {}
    /\ inOrder = TRUE

Next ==
    \/ pc = "idle" /\ \E r \in RepoURLs, c \in Commits : Request(r, c)
    \/ pc = "first" /\ \E o \in HTTPOutcomes : FirstResponse(o)
    \/ pc = "retry" /\ \E o \in HTTPOutcomes : RetryResponse(o)
    \/ pc = "cli" /\ \E run \in CLIOutcomes : CLIExit(run)
    \/ Return

Spec == Init /\ [][Next]_vars

----------------------------------------------------------------------------
(* Properties of one resolution, checked under Spec *)

Lookups == {i \in DOMAIN calls : calls[i].kind = "http"}
Subprocesses == {i \in DOMAIN calls : calls[i].kind = "cli"}
CliInvoked == Subprocesses # {}
AllLookupsNon200 == \A i \in Lookups : calls[i].outcome = "non200"
NoLookupOK == \A i \in Lookups : calls[i].outcome # "ok"

\* C1: a returned Scorecard with pinned = true has a non-empty commitSha
\* equal to the requested commit; with no commit requested pinned is false
C1_PinnedImpliesRequestedCommit ==
    pc = "done" =>
        /\ response.Pinned =>
              (response.CommitSha # <<>> /\ response.CommitSha = commitSha)
        /\ commitSha = <<>> => ~response.Pinned

\* C2 as stated: the subprocess is invoked iff every issued lookup returned
\* non-200, the token is set, the locator supplied by the caller contains
\* github.com and a commit was requested; otherwise, with no 200, the
\* response is the zero Scorecard
C2_CliIffCallerLocatorHasGithub ==
    /\ CliInvoked =>
          /\ AllLookupsNon200
          /\ token # <<>>
          /\ Contains(repoURL, StrGithubCom)
          /\ commitSha # <<>>
    /\ pc = "done" =>
          /\ (/\ AllLookupsNon200
              /\ token # <<>>
              /\ Contains(repoURL, StrGithubCom)
              /\ commitSha # <<>>) => CliInvoked
          /\ (~CliInvoked /\ NoLookupOK) => response = EmptyScorecard

\* C2 amended: the same with the normalized locator (the URL Normalizer's
\* output) in place of the locator supplied by the caller
C2_CliIffNormalizedLocatorHasGithub ==
    /\ CliInvoked =>
          /\ AllLookupsNon200
          /\ token # <<>>
          /\ Contains(cleanRepoURL(repoURL), StrGithubCom)
          /\ commitSha # <<>>
    /\ pc = "done" =>
          /\ (/\ AllLookupsNon200
              /\ token # <<>>
              /\ Contains(cleanRepoURL(repoURL), StrGithubCom)
              /\ commitSha # <<>>) => CliInvoked
          /\ (~CliInvoked /\ NoLookupOK) => response = EmptyScorecard

\* the subprocess ran for a locator that has github.com only once normalized
C2_Witness ==
    /\ pc = "done"
    /\ CliInvoked
    /\ ~Contains(repoURL, StrGithubCom)
    /\ calls[Len(calls)].outcome = "ok"

\* C3: the sources are tried in a fixed order, each at most once: the first
\* lookup carries the commit parameter iff a commit was requested; a second
\* lookup only after a non-200 first one and only with a commit requested,
\* without the parameter; a 200 first lookup is mapped and ends the
\* resolution; the subprocess starts only after every lookup completed; at
\* most two lookups and one subprocess
C3_FixedOrderEachOnce ==
    /\ calls # <<>> =>
          /\ calls[1].kind = "http"
          /\ calls[1].url =
                IF commitSha # <<>>
                THEN scorecardAPIBaseURL \o githubURL \o StrCommitQuery \o commitSha
                ELSE scorecardAPIBaseURL \o githubURL
    /\ \A i \in Lookups : i > 1 =>
          /\ i = 2
          /\ calls[1].outcome = "non200"
          /\ commitSha # <<>>
          /\ calls[2].url = scorecardAPIBaseURL \o githubURL
    /\ (calls # <<>> /\ calls[1].outcome = "ok") =>
          /\ Len(calls) = 1
          /\ pc = "done"
          /\ response = parseScoreCard(calls[1].body, commitSha)
    /\ \A i \in Subprocesses :
          /\ i = Len(calls)
          /\ \A j \in 1..(i - 1) :
                calls[j].kind = "http" /\ calls[j].outcome # "pending"
    /\ Cardinality(Lookups) <= 2
    /\ Cardinality(Subprocesses) <= 1

\* a resolution that went through both lookups and the subprocess
C3_Witness ==
    /\ pc = "done"
    /\ Cardinality(Lookups) = 2
    /\ Cardinality(Subprocesses) = 1

\* C4: a lookup that fails at transport level is the last call of the
\* resolution, and the response is the zero Scorecard
C4_TransportFailureEndsResolution ==
    \A i \in Lookups : calls[i].outcome = "error" =>
        /\ i = Len(calls)
        /\ pc = "done"
        /\ response = EmptyScorecard

\* the retry failed at transport level although the subprocess was allowed
C4_Witness ==
    /\ pc = "done"
    /\ Len(calls) = 2
    /\ calls[2].outcome = "error"
    /\ token # <<>>
    /\ Contains(repoURL, StrGithubCom)
    /\ Contains(githubURL, StrGithubCom)
    /\ commitSha # <<>>

\* C5: an empty repoURL is answered with the zero Scorecard, with no lookup
\* and no subprocess, whatever the commit and the token
C5_EmptyRepoURLNoCalls ==
    (pc # "idle" /\ repoURL = <<>>) =>
        /\ pc = "done"
        /\ response = EmptyScorecard
        /\ calls = <<>>

\* an empty repoURL with a commit requested and the token set
C5_Witness ==
    /\ pc = "done"
    /\ repoURL = <<>>
    /\ commitSha # <<>>
    /\ token # <<>>

\* a call whose result cannot be used: a 200 with an undecodable body, a
\* subprocess that failed to launch, exited non-zero, or printed
\* undecodable output
Unusable(call) ==
    \/ call.kind = "http" /\ call.outcome = "ok" /\ ~call.body.ok
    \/ call.kind = "cli" /\ call.outcome \in {"launch", "exit"}
    \/ call.kind = "cli" /\ call.outcome = "ok" /\ ~call.body.ok

\* C6: an unusable result is final and is answered with the zero Scorecard;
\* every finished resolution answers with a Scorecard
C6_UndecodableAbsorbed ==
    /\ \A i \in DOMAIN calls : Unusable(calls[i]) =>
          /\ i = Len(calls)
          /\ pc = "done"
          /\ response = EmptyScorecard
    /\ pc = "done" => DOMAIN response = DOMAIN EmptyScorecard

\* a 200 whose body fails to decode after the commit was read, with the
\* subprocess allowed
C6_Witness ==
    /\ pc = "done"
    /\ Len(calls) = 1
    /\ calls[1].outcome = "ok"
    /\ ~calls[1].body.ok
    /\ calls[1].body.result.Commit = commitSha
    /\ commitSha # <<>>
    /\ token # <<>>
    /\ Contains(githubURL, StrGithubCom)

----------------------------------------------------------------------------
(* The Result Mapper on its own: both copies applied to the same bytes *)

MaxChecks == 2

\* the check names of the spec's data model, Maintained through Webhooks
CheckNames ==
    { "Maintained", "Code-Review", "CII-Best-Practices", "License",
      "Signed-Releases", "Dangerous-Workflow", "Packaging", "Token-Permissions",
      "Branch-Protection", "Binary-Artifacts", "Pinned-Dependencies", "Security-Policy",
      "Fuzzing", "SAST", "Vulnerabilities", "CI-Tests",
      "Contributors", "Dependency-Update-Tool", "SBOM", "Webhooks" }

\* the Scorecard field the data model gives each check name
FieldOf(name) ==
    CASE name = "Maintained" -> "Maintained"
      [] name = "Code-Review" -> "CodeReview"
      [] name = "CII-Best-Practices" -> "CIIBestPractices"
      [] name = "License" -> "License"
      [] name = "Signed-Releases" -> "SignedReleases"
      [] name = "Dangerous-Workflow" -> "DangerousWorkflow"
      [] name = "Packaging" -> "Packaging"
      [] name = "Token-Permissions" -> "TokenPermissions"
      [] name = "Branch-Protection" -> "BranchProtection"
      [] name = "Binary-Artifacts" -> "BinaryArtifacts"
      [] name = "Pinned-Dependencies" -> "PinnedDependencies"
      [] name = "Security-Policy" -> "SecurityPolicy"
      [] name = "Fuzzing" -> "Fuzzing"
      [] name = "SAST" -> "SAST"
      [] name = "Vulnerabilities" -> "Vulnerabilities"
      [] name = "CI-Tests" -> "CITests"
      [] name = "Contributors" -> "Contributors"
      [] name = "Dependency-Update-Tool" -> "DependencyUpdateTool"
      [] name = "SBOM" -> "SBOM"
      [] name = "Webhooks" -> "Webhooks"

\* names the table does not hold: an unknown check, a known one in lower case
OtherNames == {"Not-A-Check", "maintained"}

\* check entries: every name with one score, some with a second one (-1 is
\* the upstream's inconclusive score)
Entries ==
    {[Name |-> n, Score |-> 8] : n \in CheckNames \cup OtherNames}
    \cup {[Name |-> n, Score |-> -1] : n \in {"Maintained", "Webhooks", "Not-A-Check"}}

RECURSIVE SeqsUpTo(_, _)
SeqsUpTo(S, n) ==
    IF n = 0 THEN {<<>>}
    ELSE LET shorter == SeqsUpTo(S, n - 1)
         IN  shorter \cup {Append(q, e) : q \in shorter, e \in S}

MapResults ==
    [ Commit : {<<>>, StrAbc},
      AggregateScore : {75},
      Checks : SeqsUpTo(Entries, MaxChecks) ]

MapBodies ==
    {[ok |-> TRUE, result |-> r] : r \in MapResults}
    \cup {[ok |-> FALSE, result |-> r] : r \in {x \in MapResults : Len(x.Checks) <= 1}}

\* parseScoreCard and the decode-and-map part of fetchScoreCardWithCLI
\* applied to the same body and commit
MapBoth ==
    /\ pc = "idle"
    /\ pc' = "mapped"
    /\ response' = parseScoreCard(rawBody, commitSha)
    /\ cliScorecard' = cliDecodeAndMap(rawBody, commitSha)
    /\ UNCHANGED <<token, repoURL, commitSha, githubURL, fullURL, calls,
                   rawBody, cur, todo, inOrder>>

InitMap ==
    /\ pc = "idle"
    /\ token = <<>>
    /\ repoURL = <<>>
    /\ commitSha \in Commits
    /\ githubURL = <<>>
    /\ fullURL = <<>>
    /\ calls = <<>>
    /\ response = NoResponse
    /\ rawBody \in MapBodies
    /\ cliScorecard = NoResponse
    /\ cur = <<>>
    /\ todo = {}
    /\ inOrder = TRUE

NextMap == MapBoth

SpecMap == InitMap /\ [][NextMap]_vars

\* the entries of a check sequence whose names the table holds
RECURSIVE KnownOnly(_)
KnownOnly(checks) ==
    IF checks = <<>> THEN <<>>
    ELSE IF Head(checks).Name \in CheckNames
         THEN <<Head(checks)>> \o KnownOnly(Tail(checks))
         ELSE KnownOnly(Tail(checks))

\* C7: the mapped Scorecard has the aggregate score; a check field whose
\* name occurs holds the score of an entry with that name; a check field
\* whose name does not occur is zero; entries with names outside the table
\* change nothing
C7_MapperAssignsByName ==
    (pc = "mapped" /\ rawBody.ok) =>
        LET checks == rawBody.result.Checks
        IN  /\ response.Score = rawBody.result.AggregateScore
            /\ \A n \in CheckNames :
                  IF \E i \in DOMAIN checks : checks[i].Name = n
                  THEN \E i \in DOMAIN checks :
                          checks[i].Name = n /\ response[FieldOf(n)] = checks[i].Score
                  ELSE response[FieldOf(n)] = 0
            /\ response =
                  parseScoreCard([rawBody EXCEPT !.result.Checks = KnownOnly(checks)],
                                 commitSha)

\* an unknown entry followed by a known one
C7_Witness ==
    /\ pc = "mapped"
    /\ rawBody.ok
    /\ Len(rawBody.result.Checks) = 2
    /\ rawBody.result.Checks[1].Name = "Not-A-Check"
    /\ rawBody.result.Checks[2].Name = "SAST"
    /\ response.SAST = 8
    /\ response.SBOM = 0

\* C8: the remote path's mapper and the local path's decode-and-map yield
\* the same Scorecard for every body and requested commit
C8_SameMappingOnBothPaths ==
    pc = "mapped" => response = cliScorecard

\* a decodable body with the requested commit and a Webhooks entry
C8_Witness ==
    /\ pc = "mapped"
    /\ rawBody.ok
    /\ response.Pinned
    /\ response.Webhooks = 8
    /\ cliScorecard.Webhooks = 8

----------------------------------------------------------------------------
(* Locators of the form prefix + host/org/repo + suffix *)

MaxSegChunks == 2

StrFoo == <<"f", "o", "o">>
StrBar == <<"b", "a", "r">>
StrSlash == <<"/">>

\* pieces of path segments: plain ones, and fragments of the stripped
\* substrings that meet a prefix or the suffix at a junction
SegChunks ==
    { StrGithubCom, StrFoo, <<".", "g", "i">>, <<"g", "i", "t">>, <<"t">>,
      <<"s", "s", "h", ":">>, <<"+">>, <<".">> }

RECURSIVE SegsUpTo(_, _)
SegsUpTo(chunks, n) ==
    IF n = 0 THEN {<<>>}
    ELSE LET shorter == SegsUpTo(chunks, n - 1)
         IN  shorter \cup {q \o c : q \in shorter, c \in chunks}

\* host/org/repo paths whose host or repo is built from the pieces
PathsOver(segs) ==
    {h \o StrSlash \o StrFoo \o StrSlash \o StrBar : h \in segs \ {<<>>}}
    \cup {StrGithubCom \o StrSlash \o StrFoo \o StrSlash \o r : r \in segs \ {<<>>}}

\* the seven substrings the spec says are stripped
StrippedSubstrings ==
    {StrGitSsh, StrGitHttps, StrHttp, StrHttps, StrGitColon, StrGitPlus, StrDotGit}

\* a bare path: non-empty segments separated by "/", holding none of the
\* seven stripped substrings
IsBarePath(b) ==
    /\ b # <<>>
    /\ Head(b) # "/"
    /\ b[Len(b)] # "/"
    /\ ~Contains(b, <<"/", "/">>)
    /\ \A x \in StrippedSubstrings : ~Contains(b, x)

BarePaths == {b \in PathsOver(SegsUpTo(SegChunks, MaxSegChunks)) : IsBarePath(b)}

Locators == {p \o b \o s : p \in Prefixes, b \in BarePaths, s \in Suffixes}

TransportErrors == {o \in HTTPOutcomes : o.err}

\* the handler on locators of that form, each lookup failing at transport
\* level
NextURL ==
    \/ pc = "idle" /\ \E r \in Locators, c \in Commits : Request(r, c)
    \/ pc = "first" /\ \E o \in TransportErrors : FirstResponse(o)
    \/ Return

SpecURL == Init /\ [][NextURL]_vars

StartsWith(s, p) == Len(s) >= Len(p) /\ SubSeq(s, 1, Len(p)) = p
EndsWith(s, x) == Len(s) >= Len(x) /\ SubSeq(s, Len(s) - Len(x) + 1, Len(s)) = x

\* C9: for a locator made of a listed prefix (or none), a bare path and
\* optionally .git, the normalized locator is the bare path, and the first
\* lookup URL is the base URL followed by it (and by the commit query when a
\* commit was requested)
C9_LocatorNormalizedToBarePath ==
    pc = "first" =>
        \A p \in Prefixes, s \in Suffixes :
            (/\ Len(repoURL) >= Len(p) + Len(s)
             /\ StartsWith(repoURL, p)
             /\ EndsWith(repoURL, s)
             /\ IsBarePath(SubSeq(repoURL, Len(p) + 1, Len(repoURL) - Len(s)))) =>
                LET b == SubSeq(repoURL, Len(p) + 1, Len(repoURL) - Len(s))
                IN  /\ githubURL = b
                    /\ calls[1].url =
                          scorecardAPIBaseURL \o b \o
                          (IF commitSha = <<>> THEN <<>> ELSE StrCommitQuery \o commitSha)

\* the spec's example, https://github.com/foo/bar.git
C9_Witness ==
    /\ pc = "first"
    /\ repoURL = StrHttps \o StrGithubCom \o StrFooBar \o StrDotGit
    /\ githubURL = StrGithubCom \o StrFooBar
    /\ commitSha = <<>>
    /\ calls[1].url = scorecardAPIBaseURL \o StrGithubCom \o StrFooBar

----------------------------------------------------------------------------
(* The seven replacements applied in an arbitrary order *)

MaxPermChunks == 2

PermChunks ==
    { StrGithubCom, <<".", "g", "i">>, <<"g", "i", "t">>, <<"t">>,
      <<"s", "s", "h", ":">>, <<"+">> }

\* inputs: prefix + path + suffix, the path a bare one or not
PermInputs ==
    {p \o b \o s : p \in Prefixes,
                   b \in PathsOver(SegsUpTo(PermChunks, MaxPermChunks)),
                   s \in Suffixes}

\* cleanRepoURL applied to the input
Clean ==
    /\ pc = "input"
    /\ pc' = "cleaned"
    /\ githubURL' = cleanRepoURL(repoURL)
    /\ UNCHANGED <<token, repoURL, commitSha, fullURL, calls, response, rawBody,
                   cliScorecard, cur, todo, inOrder>>

\* one pass of the loop of cleanRepoURL, for entry i of the table, taken
\* out of order
ApplyOne(i) ==
    /\ pc = "cleaned"
    /\ i \in todo
    /\ cur' = ReplaceAll(cur, replacements[i].old, replacements[i].new)
    /\ todo' = todo \ {i}
    /\ inOrder' = (inOrder /\ ~(replacements[i].old = StrGitPlus
                                /\ \E j \in todo : replacements[j].old = StrGitSsh))
    /\ UNCHANGED <<pc, token, repoURL, commitSha, githubURL, fullURL, calls,
                   response, rawBody, cliScorecard>>

InitPerm ==
    /\ pc = "input"
    /\ token = <<>>
    /\ repoURL \in PermInputs
    /\ commitSha = <<>>
    /\ githubURL = <<>>
    /\ fullURL = <<>>
    /\ calls = <<>>
    /\ response = NoResponse
    /\ rawBody = NoBody
    /\ cliScorecard = NoResponse
    /\ cur = repoURL
    /\ todo = DOMAIN replacements
    /\ inOrder = TRUE

NextPerm ==
    \/ Clean
    \/ \E i \in DOMAIN replacements : ApplyOne(i)

SpecPerm == InitPerm /\ [][NextPerm]_vars

\* the input is a listed prefix (or none), a bare path and optionally .git
IsLocator(u) ==
    \E p \in Prefixes, s \in Suffixes :
        /\ Len(u) >= Len(p) + Len(s)
        /\ StartsWith(u, p)
        /\ EndsWith(u, s)
        /\ IsBarePath(SubSeq(u, Len(p) + 1, Len(u) - Len(s)))

\* C10 as stated: for every input, the seven replacements applied in any
\* order yield the output of cleanRepoURL
C10_OrderIndependent ==
    (pc = "cleaned" /\ todo = {}) => cur = githubURL

\* C10 amended: the replacements are order-dependent; for a locator made of
\* a listed prefix (or none), a bare path and optionally .git, every order
\* that applies git+ssh://git@ before git+ yields the output of cleanRepoURL
C10_OrderIndependentOnLocators ==
    (pc = "cleaned" /\ todo = {} /\ inOrder /\ IsLocator(repoURL)) =>
        cur = githubURL

\* a git+ssh://git@ locator with .git, all seven replacements applied with
\* git+ssh://git@ before git+
C10_Witness ==
    /\ pc = "cleaned"
    /\ todo = {}
    /\ inOrder
    /\ repoURL = StrGitSsh \o StrGithubCom \o StrFooBar \o StrDotGit
    /\ cur = StrGithubCom \o StrFooBar
    /\ githubURL = cur

====
